---- MODULE Spec2Model ----
(***************************************************************************)
(* A model of marshmallow_har/schema_factory.py: the schema factory that   *)
(* derives, from a model class's keyword-only constructor, a schema, a     *)
(* replacement constructor (model_init) and the dump/load facade.          *)
(*                                                                         *)
(* A program is a small class hierarchy (single inheritance), each class   *)
(* with or without a hand-written keyword-only __init__.  The state is     *)
(* each class's __dict__ (its __init__, __schema__, dump, load), the       *)
(* closures and schema classes schema_factory has created, and the last    *)
(* instance constructed, representation dumped and load result.            *)
(*                                                                         *)
(* Values are abstract: "none" is None, "zero" is the falsy non-null value *)
(* of the field's declared type (0, '', False, [] for a Many field, {} for *)
(* a Raw field), "val" is a truthy value of that type, "fac" is a callable *)
(* (the default factory object itself) and "made" is what calling it       *)
(* returns.                                                                 *)
(***************************************************************************)
EXTENDS Integers, Sequences, FiniteSets, TLC

VARIABLES
    parent,       \* parent[c]: the base class of class c (0 is object)
    decl,         \* decl[c]: the hand-written __init__ of class c, if any
    irregular,    \* irregular[c]: the irregular_names table in c's __dict__
    field_namer,  \* the naming transform given to schema_metafactory
    FIELD_TAB,    \* the registered field-type keys
    cdict,        \* cdict[c]: __init__, __schema__, dump, load in c's __dict__
    closures,     \* closures[c]: the model_init closures made for c, oldest first
    schemas,      \* schemas[c]: the schema classes made for c, oldest first
    obj,          \* the last construction: its class, keywords, events, attributes
    rep,          \* the last dump
    res,          \* the last load
    derived       \* the last call of schema_factory: its class and outcome

vars == <<parent, decl, irregular, field_namer, FIELD_TAB, cdict, closures,
          schemas, obj, rep, res, derived>>

prog == <<parent, decl, irregular, field_namer, FIELD_TAB>>

----------------------------------------------------------------------------
(* Bounds *)

NClasses == 3
\* how often one class is handed to schema_factory
MaxPerClass == 2
\* how many calls of schema_factory succeed in one run
MaxDerive == 3
\* the call depth at which Python gives up with RecursionError
MaxDepth == 8

Classes == 1..NClasses
Object == 0

\* keyword-only parameter names, in declaration order
FieldOrder == <<"x", "y">>
FieldNames == {FieldOrder[i] : i \in 1..Len(FieldOrder)}

----------------------------------------------------------------------------
(* Types, defaults and values *)

\* a missing parameter, and the parameters a hand-written __init__ can declare
NoParam == [k |-> "absent", of |-> 0, d |-> "nodefault"]
Prim(d) == [k |-> "prim", of |-> 0, d |-> d]
RawP(d) == [k |-> "raw", of |-> 0, d |-> d]
Unreg(d) == [k |-> "unreg", of |-> 0, d |-> d]
OneOf(c, d) == [k |-> "one", of |-> c, d |-> d]
ManyOf(c, d) == [k |-> "many", of |-> c, d |-> d]

Truthy(v) == v \in {"val", "fac", "made"}

\* Python's `a or b`
Or(a, b) == IF Truthy(a) THEN a ELSE b

EmptyKw == [n \in {} |-> "none"]

----------------------------------------------------------------------------
(* Class lookup *)

RECURSIVE Mro(_)
\* c.__mro__ under single inheritance, ending with object
Mro(c) == IF c = Object THEN <<Object>> ELSE <<c>> \o Mro(parent[c])

Ancestors(c) == {Mro(c)[i] : i \in 2..Len(Mro(c))} \ {Object}

NoFunc == [k |-> "absent", c |-> 0, g |-> 0]
ObjectInit == [k |-> "object", c |-> 0, g |-> 0]
OrigInit(c) == [k |-> "orig", c |-> c, g |-> 0]
ModelInitRef(c, g) == [k |-> "model", c |-> c, g |-> g]

NoSchema == [m |-> 0, g |-> 0]

RECURSIVE LookupInit(_)
\* c.__init__: attribute lookup along the MRO
LookupInit(c) ==
    IF c = Object THEN ObjectInit
    ELSE IF cdict[c].init.k # "absent" THEN cdict[c].init
    ELSE LookupInit(parent[c])

RECURSIVE LookupSchema(_)
\* getattr(c, '__schema__'): attribute lookup along the MRO
LookupSchema(c) ==
    IF c = Object THEN NoSchema
    ELSE IF cdict[c].schema.g # 0 THEN cdict[c].schema
    ELSE LookupSchema(parent[c])

\* c has a __schema__ of its own
Derived(c) == cdict[c].schema.g # 0

RECURSIVE LookupIrregular(_, _)
\* getattr(model_cls, 'irregular_names', {}).get(kwname): "" when not there
LookupIrregular(c, n) ==
    IF c = Object THEN ""
    ELSE IF irregular[c].own THEN irregular[c].tab[n]
    ELSE LookupIrregular(parent[c], n)

----------------------------------------------------------------------------
(* kwsift, is_model_init *)

\* the keyword-only parameters in signature(f)
KwOnly(f) ==
    IF f.k = "orig" THEN decl[f.c].params
    ELSE [n \in FieldNames |-> NoParam]

Declared(ps) == {n \in FieldNames : ps[n].k # "absent"}

HasVarKw(f) == f.k \in {"model", "object"}

kwsift(kw, f) ==
    IF HasVarKw(f) THEN kw
    ELSE [n \in (DOMAIN kw) \cap Declared(KwOnly(f)) |-> kw[n]]

is_model_init(f) == f.k = "model"

----------------------------------------------------------------------------
(* schema_factory: descriptors and codecs *)

NoSpec == [present |-> FALSE, default |-> "none", type |-> NoParam.k, of |-> 0,
           req |-> FALSE, allow_none |-> FALSE]

st_fieldspec(p) ==
    IF p.k = "absent" THEN NoSpec
    ELSE [present |-> TRUE,
          default |-> IF p.d # "nodefault" THEN p.d ELSE "none",
          type |-> p.k, of |-> p.of,
          req |-> p.d = "nodefault",
          allow_none |-> p.d = "none"]

init_named_kwargs(base_init) ==
    [n \in FieldNames |-> st_fieldspec(KwOnly(base_init)[n])]

IsNested(fs) == fs.type \in {"one", "many"}
IsMany(fs) == fs.type = "many"

\* get_schema_cls applied to a model class: NoSchema stands for the ValueError
get_schema_cls(c) == LookupSchema(c)

\* the first error of the field loop, "" when there is none
FieldError(c, fs) ==
    IF ~fs.present THEN ""
    ELSE IF IsNested(fs)
         THEN IF get_schema_cls(fs.of).g = 0 THEN "ValueError" ELSE ""
    ELSE IF fs.type \notin FIELD_TAB THEN "KeyError"
    ELSE ""

RECURSIVE FirstError(_, _, _)
FirstError(c, named, i) ==
    IF i > Len(FieldOrder) THEN ""
    ELSE IF FieldError(c, named[FieldOrder[i]]) # ""
         THEN FieldError(c, named[FieldOrder[i]])
    ELSE FirstError(c, named, i + 1)

Namer(n) ==
    IF field_namer = "identity" THEN n
    ELSE IF n = "x" THEN "X" ELSE "Y"

load_dump_to(c, n) ==
    IF LookupIrregular(c, n) # "" THEN LookupIrregular(c, n) ELSE Namer(n)

NoCodec == [kind |-> "absent", nested |-> NoSchema, many |-> FALSE,
            required |-> FALSE, allow_none |-> FALSE, default |-> "missing",
            load_from |-> "", dump_to |-> ""]

Field(c, n, fs) ==
    IF ~fs.present THEN NoCodec
    ELSE [kind |-> IF IsNested(fs) THEN "nested" ELSE fs.type,
          nested |-> IF IsNested(fs) THEN get_schema_cls(fs.of) ELSE NoSchema,
          many |-> IsMany(fs),
          required |-> fs.req,
          allow_none |-> fs.allow_none,
          default |-> Or(fs.default, "missing"),
          load_from |-> load_dump_to(c, n),
          dump_to |-> load_dump_to(c, n)]

schema_attrs(c, named) == [n \in FieldNames |-> Field(c, n, named[n])]

RECURSIVE BasesFrom(_, _)
BasesFrom(mro, i) ==
    IF i > Len(mro) THEN <<>>
    ELSE IF mro[i] # Object /\ cdict[mro[i]].schema.g # 0
         THEN <<cdict[mro[i]].schema>> \o BasesFrom(mro, i + 1)
    ELSE BasesFrom(mro, i + 1)

\* schema_bases without the mirrored inheritance: schema_base_class alone
schema_bases_Unmirrored(c) == <<>>

\* the derived schemas of the classes of c.__mro__ (c included), nearest first
schema_bases(c) == BasesFrom(Mro(c), 1)

SchemaObj(r) == schemas[r.m][r.g]

RECURSIVE Count(_, _)
Count(tab, c) == IF c = 0 THEN 0 ELSE Len(tab[c]) + Count(tab, c - 1)

\* the number of schema classes created so far
Made == Count(schemas, NClasses)

RECURSIVE Inherit(_, _, _)
\* the field n as the bases declare it: the nearest base that has it wins
Inherit(bases, i, n) ==
    IF i > Len(bases) THEN NoCodec
    ELSE IF SchemaObj(bases[i]).fields[n].kind # "absent"
         THEN SchemaObj(bases[i]).fields[n]
    ELSE Inherit(bases, i + 1, n)

\* type(name, schema_bases, schema_attrs): the schema class and its declared fields
schema_cls(c, attrs, bases) ==
    [model |-> c,
     stamp |-> Made,
     attrs |-> attrs,
     bases |-> bases,
     fields |-> [n \in FieldNames |->
                   IF attrs[n].kind # "absent" THEN attrs[n]
                   ELSE Inherit(bases, 1, n)]]

----------------------------------------------------------------------------
(* The program: Init *)

NoIrregular == [own |-> FALSE, tab |-> [n \in FieldNames |-> ""]]

NoDecl == [own |-> FALSE, params |-> [n \in FieldNames |-> NoParam]]
DeclOf(px, py) == [own |-> TRUE, params |-> [n \in FieldNames |->
                                              IF n = "x" THEN px ELSE py]]

NoObj == [op |-> "none"]

\* the hierarchies, up to renaming the classes: roots that have no subclass come last
Parents ==
    {p \in [Classes -> 0..NClasses] :
        /\ \A c \in Classes : p[c] < c
        /\ \A c \in Classes : (c > 1 /\ p[c] = 0) =>
               \A b \in Classes : b > c => p[b] = 0}

NoCall == [op |-> "none", cls |-> 0, err |-> ""]

InitState ==
    /\ cdict = [c \in Classes |->
                  [init |-> IF decl[c].own THEN OrigInit(c) ELSE NoFunc,
                   schema |-> NoSchema, dump |-> FALSE, load |-> FALSE]]
    /\ closures = [c \in Classes |-> <<>>]
    /\ schemas = [c \in Classes |-> <<>>]
    /\ obj = NoObj
    /\ rep = NoObj
    /\ res = NoObj
    /\ derived = NoCall

Builtins == {"prim", "raw"}

\* Hierarchies of models with primitive fields: a required x, an optional x,
\* an optional y, or no constructor of their own
HierDecls ==
    {NoDecl,
     DeclOf(Prim("nodefault"), NoParam),
     DeclOf(Prim("val"), NoParam),
     DeclOf(NoParam, Prim("val"))}

Init ==
    /\ parent \in Parents
    /\ decl \in [Classes -> HierDecls]
    /\ irregular = [c \in Classes |-> NoIrregular]
    /\ field_namer = "identity"
    /\ FIELD_TAB = Builtins
    /\ InitState

----------
(* schema_factory(model_cls) *)

base_init(c) == LookupInit(c)

Closure(c) ==
    [named |-> init_named_kwargs(base_init(c)), base |-> base_init(c)]

DeriveError(c) == FirstError(c, init_named_kwargs(base_init(c)), 1)

NewSchema(c) ==
    schema_cls(c, schema_attrs(c, init_named_kwargs(base_init(c))), schema_bases(c))

\* the __init__, dump and load patched in before the field loop runs
Patched_BeforeFieldLoop(c) ==
    [cdict EXCEPT ![c] =
        [init |-> ModelInitRef(c, Len(closures[c]) + 1),
         schema |-> IF DeriveError(c) # "" THEN @.schema
                    ELSE [m |-> c, g |-> Len(schemas[c]) + 1],
         dump |-> TRUE, load |-> TRUE]]

\* the class __dict__ after schema_factory(c): patched only when the field loop
\* and the schema creation raised nothing
Patched(c) ==
    IF DeriveError(c) # "" THEN cdict
    ELSE [cdict EXCEPT ![c] =
            [init |-> ModelInitRef(c, Len(closures[c]) + 1),
             schema |-> [m |-> c, g |-> Len(schemas[c]) + 1],
             dump |-> TRUE, load |-> TRUE]]

Derive(c) ==
    /\ Len(closures[c]) < MaxPerClass
    /\ Count(closures, NClasses) < MaxDerive
    /\ cdict' = Patched(c)
    /\ closures' = IF DeriveError(c) # "" THEN closures
                   ELSE [closures EXCEPT ![c] = Append(@, Closure(c))]
    /\ schemas' = IF DeriveError(c) # "" THEN schemas
                  ELSE [schemas EXCEPT ![c] = Append(@, NewSchema(c))]
    /\ derived' = [op |-> "derive", cls |-> c, err |-> DeriveError(c)]
    /\ obj' = NoObj
    /\ rep' = NoObj
    /\ res' = NoObj
    /\ UNCHANGED prog

----------------------------------------------------------------------------
(* model_init *)

Ev(e, c, g, n, v, kw) == [e |-> e, c |-> c, g |-> g, n |-> n, v |-> v, kw |-> kw]
Raised(what) == Ev("raise", 0, 0, "", what, {})

Failed(s) == Len(s) > 0 /\ s[Len(s)].e = "raise"

\* s, then t unless s raised
Then(s, t) == IF Failed(s) THEN s ELSE s \o t

\* the field loop body without its `attr or []` and `attr or {}`
AssignField_NoEmptyCollection(c, g, n, fspec, kw) ==
    LET attr0 == IF n \in DOMAIN kw THEN kw[n] ELSE fspec.default
        calls == fspec.type # "raw" /\ fspec.default = "fac" /\ ~Truthy(attr0)
    IN  (IF calls THEN <<Ev("call", c, g, n, "made", {})>> ELSE <<>>)
        \o <<Ev("set", c, g, n, IF calls THEN "made" ELSE attr0, {})>>

\* one pass of the field loop body for kwname n of closure <<c, g>>
AssignField(c, g, n, fspec, kw) ==
    LET attr0 == IF n \in DOMAIN kw THEN kw[n] ELSE fspec.default
        attr1 == IF IsMany(fspec) THEN Or(attr0, "zero") ELSE attr0
        calls == fspec.type # "raw" /\ fspec.default = "fac" /\ ~Truthy(attr1)
        attr2 == IF fspec.type = "raw" THEN Or(attr1, "zero")
                 ELSE IF calls THEN "made"
                 ELSE attr1
    IN  (IF calls THEN <<Ev("call", c, g, n, "made", {})>> ELSE <<>>)
        \o <<Ev("set", c, g, n, attr2, {})>>

RECURSIVE AssignFields(_, _, _, _, _)
AssignFields(c, g, named, kw, i) ==
    IF i > Len(FieldOrder) THEN <<>>
    ELSE (IF named[FieldOrder[i]].present
          THEN AssignField(c, g, FieldOrder[i], named[FieldOrder[i]], kw)
          ELSE <<>>)
         \o AssignFields(c, g, named, kw, i + 1)

\* a hand-written __init__(self, *, ...) called with keywords kw
CallOrig(c, kw) ==
    IF \E n \in Declared(decl[c].params) :
           decl[c].params[n].d = "nodefault" /\ n \notin DOMAIN kw
    THEN <<Raised("TypeError")>>
    ELSE <<Ev("body", c, 0, "", "", DOMAIN kw)>>

\* object.__init__(self, **kw)
CallObject(kw) == IF DOMAIN kw = {} THEN <<>> ELSE <<Raised("TypeError")>>

RECURSIVE Invoke(_, _, _, _, _)
\* the events of f(model_obj, _mro_offset=off, **kw) on an instance of class cls
Invoke(f, cls, off, kw, fuel) ==
    IF f.k = "object" THEN CallObject(kw)
    ELSE IF f.k = "orig" THEN CallOrig(f.c, kw)
    ELSE IF fuel = 0 THEN <<Raised("RecursionError")>>
    ELSE
      LET me == closures[f.c][f.g]
          next_in_line == Mro(cls)[off + 1]
          next_init == LookupInit(next_in_line)
          up == IF is_model_init(next_init)
                THEN Invoke(next_init, cls, off + 1, kwsift(kw, next_init), fuel - 1)
                ELSE IF next_in_line # Object
                THEN Invoke(next_init, cls, 1, kwsift(kw, next_init), fuel - 1)
                ELSE <<>>
      IN  Then(up,
            Then(<<Ev("fields", f.c, f.g, "", "", {})>>
                   \o AssignFields(f.c, f.g, me.named, kw, 1),
                 Invoke(me.base, cls, 1, kwsift(kw, me.base), fuel - 1)))

RECURSIVE AttrsOf(_, _)
\* the attribute n of the instance after the events ev: "unset" when never set
AttrsOf(ev, n) ==
    IF ev = <<>> THEN "unset"
    ELSE IF ev[Len(ev)].e = "set" /\ ev[Len(ev)].n = n THEN ev[Len(ev)].v
    ELSE AttrsOf(SubSeq(ev, 1, Len(ev) - 1), n)

Instance(c, kw) ==
    LET ev == Invoke(LookupInit(c), c, 1, kw, MaxDepth)
    IN  [op |-> "new", cls |-> c, kw |-> kw, ev |-> ev, ok |-> ~Failed(ev),
         attrs |-> [n \in FieldNames |-> AttrsOf(ev, n)]]

\* keyword arguments: some of the names N, each with a value of V
KwargsOver(N, V) == UNION {[S -> V] : S \in SUBSET N}

Construct(c, kw) ==
    /\ cdict[c].schema.g # 0
    /\ obj' = Instance(c, kw)
    /\ rep' = NoObj
    /\ res' = NoObj
    /\ UNCHANGED <<prog, cdict, closures, schemas, derived>>

----------------------------------------------------------------------------------------------------------------------------------------------------------------------------------------------------------------
(* model_dump *)

\* what the codec writes for attribute value a: "skip" when it writes nothing
Serialized(codec, a) ==
    IF a = "unset"
    THEN IF codec.default = "missing" THEN "skip"
         ELSE IF codec.default = "fac" THEN "made"
         ELSE codec.default
    ELSE IF a = "fac" THEN "made"
    ELSE a

\* the fields of schema s that write key k for the instance i
Writers(s, i, k) ==
    {n \in FieldNames :
        /\ s.fields[n].kind # "absent"
        /\ s.fields[n].dump_to = k
        /\ Serialized(s.fields[n], i.attrs[n]) # "skip"}

DumpKeys(s, i) ==
    {s.fields[n].dump_to : n \in {m \in FieldNames : s.fields[m].kind # "absent"}}
    \ {k \in {s.fields[n].dump_to : n \in FieldNames} : Writers(s, i, k) = {}}

\* schema_ins.dump(self): one value per key; of two fields that write the same
\* key one is kept; a callable attribute is called, or the dump fails on it
Dumps(i) ==
    LET s == SchemaObj(LookupSchema(i.cls))
    IN  {[op |-> "dump", ok |-> TRUE, data |-> d] :
            d \in {r \in [DumpKeys(s, i) -> {"none", "zero", "val", "made"}] :
                     \A k \in DumpKeys(s, i) : \E n \in Writers(s, i, k) :
                         r[k] = Serialized(s.fields[n], i.attrs[n])}}
        \cup (IF \E n \in FieldNames : s.fields[n].kind # "absent" /\ i.attrs[n] = "fac"
              THEN {[op |-> "dump", ok |-> FALSE, data |-> EmptyKw]}
              ELSE {})

Dump ==
    /\ obj.op = "new"
    /\ obj.ok
    /\ LookupSchema(obj.cls).g # 0
    /\ rep' \in Dumps(obj)
    /\ res' = NoObj
    /\ UNCHANGED <<prog, cdict, closures, schemas, derived, obj>>

----------------------------------------------------------------------------
(* model_load *)

\* the fields the schema rejects in the input: a required field that is not
\* there, a null in a field that does not allow it
Violations(s, input) ==
    {n \in FieldNames :
        /\ s.fields[n].kind # "absent"
        /\ IF s.fields[n].load_from \in DOMAIN input
           THEN input[s.fields[n].load_from] = "none" /\ ~s.fields[n].allow_none
           ELSE s.fields[n].required}

Deserialized(s, input) ==
    [n \in {m \in FieldNames :
               /\ s.fields[m].kind # "absent"
               /\ m \notin Violations(s, input)
               /\ s.fields[m].load_from \in DOMAIN input}
       |-> input[s.fields[n].load_from]]

\* the hook of the schema base class that builds the model from the loaded data
make_object(c, data) == Instance(c, data)

\* schema_ins.load(data) under strict or not
Loaded(c, input, strict, from) ==
    LET s == SchemaObj(LookupSchema(c))
        errors == Violations(s, input)
        made == make_object(c, Deserialized(s, input))
    IN  [op |-> "load", cls |-> c, strict |-> strict, from |-> from, input |-> input,
         errors |-> errors,
         raised |-> IF errors # {} THEN (IF strict THEN "ValidationError" ELSE "")
                    ELSE IF made.ok THEN ""
                    ELSE made.ev[Len(made.ev)].v,
         data |-> Deserialized(s, input),
         inst |-> IF errors = {} /\ made.ok THEN made ELSE NoObj]

LoadKeys(c) ==
    {SchemaObj(LookupSchema(c)).fields[n].load_from :
        n \in {m \in FieldNames : SchemaObj(LookupSchema(c)).fields[m].kind # "absent"}}

\* load of what the last dump gave
LoadDumped(strict) ==
    /\ rep.op = "dump"
    /\ rep.ok
    /\ res' = Loaded(obj.cls, rep.data, strict, "dump")
    /\ UNCHANGED <<prog, cdict, closures, schemas, derived, obj, rep>>

\* load of a representation given by the caller
LoadInput(c, strict) ==
    /\ Derived(c)
    /\ \E input \in KwargsOver(LoadKeys(c), {"none", "val"}) :
          res' = Loaded(c, input, strict, "input")
    /\ obj' = NoObj
    /\ rep' = NoObj
    /\ UNCHANGED <<prog, cdict, closures, schemas, derived>>

----------
(* Specifications *)

Next ==
    \/ \E c \in Classes : Derive(c)
    \/ \E c \in Classes, kw \in KwargsOver(FieldNames, {"val"}) : Construct(c, kw)

\* hierarchies of models with primitive fields
Spec == Init /\ [][Next]_vars

\* Models with a primitive field, a One[...] field naming another class, or a
\* primitive field followed by a field of a type that may not be registered
NestedDecls(c) ==
    {NoDecl, DeclOf(Prim("val"), NoParam), DeclOf(Prim("val"), Unreg("val"))}
    \cup {DeclOf(OneOf(r, "none"), NoParam) : r \in Classes \ {c}}

InitSchema ==
    /\ parent \in Parents
    /\ decl \in {d \in [Classes -> UNION {NestedDecls(c) : c \in Classes}] :
                    \A c \in Classes : d[c] \in NestedDecls(c)}
    /\ irregular = [c \in Classes |-> NoIrregular]
    /\ field_namer = "identity"
    /\ FIELD_TAB \in {Builtins, Builtins \cup {"unreg"}}
    /\ InitState

NextSchema == \E c \in Classes : Derive(c)

Defaults == {"nodefault", "none", "zero", "val", "fac"}

\* Class 1 declares x: a primitive, a Raw or a Many[...] of the last class, with
\* any default; the classes between may declare an optional primitive y
FieldParams ==
    {Prim(d) : d \in Defaults} \cup {RawP(d) : d \in Defaults}
    \cup {ManyOf(NClasses, d) : d \in Defaults}

InitFields ==
    /\ parent \in {p \in Parents : p[NClasses] = 0}
    /\ decl \in {d \in [Classes -> {NoDecl, DeclOf(NoParam, Prim("val"))}
                                   \cup {DeclOf(p, NoParam) : p \in FieldParams}] :
                    /\ d[1].params["x"].k # "absent"
                    /\ d[NClasses] = NoDecl
                    /\ \A c \in Classes \ {1} : d[c].params["x"].k = "absent"}
    /\ irregular = [c \in Classes |-> NoIrregular]
    /\ field_namer = "identity"
    /\ FIELD_TAB = Builtins
    /\ InitState

Irregulars ==
    {NoIrregular,
     [own |-> TRUE, tab |-> [n \in FieldNames |-> IF n = "x" THEN "y" ELSE ""]],
     [own |-> TRUE, tab |-> [n \in FieldNames |-> IF n = "x" THEN "ex" ELSE ""]]}

\* Class 1 declares x and y (required, nullable, falsy default, factory), with a
\* table of irregular names or a naming transform or neither; class 2, when it
\* is a subclass of class 1, may redeclare x as optional
InitIO ==
    /\ parent \in {p \in Parents : p[NClasses] = 0}
    /\ decl \in {d \in [Classes -> {NoDecl,
                                     DeclOf(Prim("nodefault"), Prim("val")),
                                     DeclOf(Prim("none"), Prim("zero")),
                                     DeclOf(Prim("nodefault"), Prim("fac")),
                                     DeclOf(Prim("val"), NoParam)}] :
                    /\ Cardinality(Declared(d[1].params)) = 2
                    /\ Cardinality(Declared(d[2].params)) < 2
                    /\ parent[2] = 0 => d[2] = NoDecl
                    /\ \A c \in Classes : c > 2 => d[c] = NoDecl}
    /\ irregular \in {t \in [Classes -> Irregulars] :
                         \A c \in Classes \ {1} : t[c] = NoIrregular}
    /\ field_namer \in {"identity", "upper"}
    /\ field_namer = "upper" => irregular[1] = NoIrregular
    /\ FIELD_TAB = Builtins
    /\ InitState

\* the classes of the hierarchy that declare fields
IOClasses == {c \in Classes : c < NClasses}

NextIO ==
    \/ \E c \in IOClasses : Derive(c)
    \/ \E c \in IOClasses, kw \in KwargsOver(FieldNames, {"none", "val"}) :
          Construct(c, kw)
    \/ Dump
    \/ \E strict \in BOOLEAN : LoadDumped(strict)
    \/ \E c \in IOClasses, strict \in BOOLEAN : LoadInput(c, strict)

\* dump and load of models with required, nullable and defaulted fields
SpecIO == InitIO /\ [][NextIO]_vars

NextFields ==
    \/ \E c \in Classes : Derive(c)
    \/ \E c \in Classes, kw \in KwargsOver({"x"}, {"none", "zero", "val"}) :
          Construct(c, kw)

\* constructions of models whose field x is of every kind, with every default
SpecFields == InitFields /\ [][NextFields]_vars

\* derivations of models that refer to one another
SpecSchema == InitSchema /\ [][NextSchema]_vars

----------------------------------------------------------------------------
(* Reading a construction *)

\* c was processed by schema_factory
Processed(c) == Len(closures[c]) > 0

Lineage(c) == {c} \cup Ancestors(c)

Built == obj.op = "new" /\ obj.ok

Positions(ev, e, c) == {i \in 1..Len(ev) : ev[i].e = e /\ ev[i].c = c}

Sets(ev, c, n) == {i \in Positions(ev, "set", c) : ev[i].n = n}

\* the names the closure g of class c assigns
Own(c, g) == {n \in FieldNames : closures[c][g].named[n].present}

\* the names class c's field-assignment steps assign
Assigned(c) == UNION {Own(c, g) : g \in 1..Len(closures[c])}

\* the runs of a field loop of class c that has fields to assign
Loops(ev, c) == {i \in Positions(ev, "fields", c) : Own(c, ev[i].g) # {}}

OncePerClass == \A c \in Classes : Len(closures[c]) <= 1

\* each processed class of the lineage that declares fields runs its field loop
\* once, ancestors first, and each of its fields is set once
EachOnce(ev, cls) ==
    /\ \A c \in Lineage(cls) : (Processed(c) /\ Assigned(c) # {}) =>
          /\ Cardinality(Loops(ev, c)) = 1
          /\ \A n \in Assigned(c) : Cardinality(Sets(ev, c, n)) = 1
    /\ \A c \in Lineage(cls), a \in Ancestors(cls) :
          a \in Ancestors(c) =>
             \A i \in Loops(ev, c), j \in Loops(ev, a) : j < i

\* each hand-written constructor body of a processed class of the lineage runs once,
\* after the fields of its class and of its ancestors, with keywords it declares
BodiesOnce(ev, cls) ==
    \A c \in Lineage(cls) : (Processed(c) /\ decl[c].own) =>
        /\ Cardinality(Positions(ev, "body", c)) = 1
        /\ \A i \in Positions(ev, "body", c) :
              /\ ev[i].kw \subseteq Declared(decl[c].params)
              /\ \A j \in 1..Len(ev) :
                    (ev[j].e = "set" /\ ev[j].c \in Lineage(c)) => j < i

----------------------------------------------------------------------------
(* C1: one construction of an instance of a processed model runs the        *)
(* field-assignment step of every processed class of its ancestry exactly  *)
(* once, ancestors before descendants, and sets every declared field       *)
(* exactly once (here for classes each processed once).                    *)
C1_FieldsAssignedOnce ==
    (Built /\ OncePerClass) => EachOnce(obj.ev, obj.cls)

(* C9: in every construction the hand-written constructor body of each     *)
(* derived class of the ancestry runs exactly once, after the fields of    *)
(* that class and of its ancestors were assigned, with only the keywords   *)
(* it accepts (here for classes each processed once).                      *)
C9_BodyRunsOnce ==
    (Built /\ OncePerClass) => BodiesOnce(obj.ev, obj.cls)

\* every class of the lineage has its own constructor and was processed
Regular(cls) == \A c \in Lineage(cls) : decl[c].own /\ Processed(c)

Supplied(cls, kw) ==
    \A c \in Lineage(cls) : \A n \in Declared(decl[c].params) :
        decl[c].params[n].d = "nodefault" => n \in DOMAIN kw

\* constructions of regular lineages whose classes were each processed once
\* succeed and assign every field once
FirstDerivationBehaviour ==
    (obj.op = "new" /\ OncePerClass /\ Regular(obj.cls) /\ Supplied(obj.cls, obj.kw))
       => (obj.ok /\ EachOnce(obj.ev, obj.cls) /\ BodiesOnce(obj.ev, obj.cls))

SameFields(s, t) == \A n \in FieldNames : s.fields[n] = t.fields[n]

(* C6: deriving a model a second time changes nothing: the fields of the   *)
(* attached schema are those of the first derivation, and a construction   *)
(* still succeeds, assigns each field once and runs each body once (stated *)
(* for lineages whose classes all have their own constructor, where this   *)
(* is the behaviour after the first derivation).                            *)
C6_DerivationIdempotent ==
    /\ \A c \in Classes :
          (/\ Len(schemas[c]) >= 2
           /\ \A a \in Ancestors(c) : \A g \in 1..Len(schemas[a]) :
                 schemas[a][g].stamp < schemas[c][1].stamp)
             => SameFields(schemas[c][Len(schemas[c])], schemas[c][1])
    /\ (obj.op = "new" /\ Regular(obj.cls) /\ Supplied(obj.cls, obj.kw))
          => (obj.ok /\ \A c \in Lineage(obj.cls) :
                          /\ \A n \in Assigned(c) : Cardinality(Sets(obj.ev, c, n)) = 1
                          /\ Cardinality(Positions(obj.ev, "body", c)) = 1)

----------------------------------------------------------------------------
(* Reading a schema *)

Current(c) == SchemaObj(cdict[c].schema)

HasField(s, n) == s.fields[n].kind # "absent"

\* the codecs class b's own constructor parameters gave, whichever derivation read them
OwnWins(b) ==
    \A g \in 1..Len(schemas[b]) : \A n \in FieldNames :
        schemas[b][g].attrs[n].kind # "absent"
            => Current(b).fields[n] = schemas[b][g].attrs[n]

\* schema sb has every field of schema sa
Contains(sb, sa) == \A n \in FieldNames : HasField(sa, n) => HasField(sb, n)

RECURSIVE LastBefore(_, _, _)
\* the newest of the first g schemas of class a made before stamp t (0: none)
LastBefore(a, t, g) ==
    IF g = 0 THEN 0
    ELSE IF schemas[a][g].stamp < t THEN g
    ELSE LastBefore(a, t, g - 1)

\* class a had a schema when class b's current schema was made
DerivedBefore(a, b) ==
    Derived(b) /\ LastBefore(a, Current(b).stamp, Len(schemas[a])) > 0

SchemaThen(a, b) == schemas[a][LastBefore(a, Current(b).stamp, Len(schemas[a]))]

(* C4 as stated: whenever derived model B derives from derived model A,     *)
(* B's schema has every field of A's schema and B's own, and B's codec is  *)
(* the one in effect for a name both declare.                               *)
C4_InheritanceComposition ==
    \A b \in Classes : \A a \in Ancestors(b) :
        (Derived(a) /\ Derived(b)) => (Contains(Current(b), Current(a)) /\ OwnWins(b))

(* C4 amended: whenever B derives from A and A had a derived schema when B *)
(* was derived, B's schema has every field of the schema A had then and    *)
(* B's own, and B's codec is the one in effect for a name both declare.     *)
C4_CompositionWhenAncestorFirst ==
    \A b \in Classes : \A a \in Ancestors(b) :
        DerivedBefore(a, b) => (Contains(Current(b), SchemaThen(a, b)) /\ OwnWins(b))

\* B derived after A, both declaring x with different codecs, and an ancestor field
\* B does not declare
C4_Witness ==
    \E b \in Classes : \E a \in Ancestors(b) :
        /\ DerivedBefore(a, b)
        /\ \E n \in FieldNames :
              /\ schemas[b][1].attrs[n].kind # "absent"
              /\ HasField(SchemaThen(a, b), n)
              /\ SchemaThen(a, b).fields[n] # schemas[b][1].attrs[n]
        /\ \E a2 \in Ancestors(b) : \E n \in FieldNames :
              /\ DerivedBefore(a2, b)
              /\ HasField(SchemaThen(a2, b), n)
              /\ schemas[b][1].attrs[n].kind = "absent"

----------------------------------------------------------------------------
(* C7: a nested field resolves only to the schema derived for the related  *)
(* model itself (a model without its own derived schema never resolves to  *)
(* a codec, so the derivation fails), and two models that refer to each    *)
(* other through One[...] are never both derived.                          *)
C7_NestedNeedsOwnSchema ==
    /\ \A c \in Classes : \A g \in 1..Len(schemas[c]) : \A n \in FieldNames :
          schemas[c][g].attrs[n].kind = "nested"
              => schemas[c][g].attrs[n].nested.m = closures[c][g].named[n].of
    /\ \A a, b \in Classes :
          (/\ a # b /\ Derived(a) /\ Derived(b)
           /\ \E n \in FieldNames : decl[a].params[n] = OneOf(b, "none"))
             => \A n \in FieldNames : decl[b].params[n] # OneOf(a, "none")

(* C8: a call of schema_factory that raises leaves every class __dict__    *)
(* (__init__, __schema__, dump, load), the closures, the schema classes    *)
(* and the registry as they were.                                          *)
C8_FailedDerivationChangesNothing ==
    [][derived'.err # "" =>
          (/\ cdict' = cdict /\ closures' = closures /\ schemas' = schemas
           /\ FIELD_TAB' = FIELD_TAB)]_vars

\* a derivation failed on its second field, of a class derived before and of a
\* class never derived
C8_Witness ==
    /\ derived.op = "derive"
    /\ derived.err = "KeyError"
    /\ \E c \in Classes : Derived(c) /\ ~Derived(derived.cls)

----------------------------------------------------------------------------
(* Reading the value of a field *)

RECURSIVE LastSet(_, _, _)
\* the last of the first i events that sets n (0: none)
LastSet(ev, n, i) ==
    IF i = 0 THEN 0
    ELSE IF ev[i].e = "set" /\ ev[i].n = n THEN i
    ELSE LastSet(ev, n, i - 1)

\* the descriptor of the field the event sets
SpecOf(e) == closures[e.c][e.g].named[e.n]

Unsupplied(kw, n) == n \notin DOMAIN kw \/ kw[n] = "none"

\* the fields of the instance whose declared type is one of kinds
FieldsOfKind(kinds) ==
    {n \in FieldNames :
        /\ LastSet(obj.ev, n, Len(obj.ev)) > 0
        /\ SpecOf(obj.ev[LastSet(obj.ev, n, Len(obj.ev))]).type \in kinds}

DeclaredDefault(n) == SpecOf(obj.ev[LastSet(obj.ev, n, Len(obj.ev))]).default

Contracted(fs, kw, n) ==
    IF n \in DOMAIN kw
    THEN IF kw[n] = "none" /\ fs.type \in {"many", "raw"} THEN "zero" ELSE kw[n]
    ELSE IF fs.default = "fac" THEN "made"
    ELSE IF fs.default = "none" /\ fs.type \in {"many", "raw"} THEN "zero"
    ELSE fs.default

(* C10: every field is set to the supplied value when its name is among    *)
(* the keywords (0, '', false and empty collections included) and to its   *)
(* default otherwise; a default factory is called only when no value was   *)
(* supplied, and then once.                                                 *)
C10_SuppliedValueOrDefault ==
    (Built /\ OncePerClass /\ Regular(obj.cls)) =>
        \A i \in 1..Len(obj.ev) :
            /\ obj.ev[i].e = "set"
                  => obj.ev[i].v = Contracted(SpecOf(obj.ev[i]), obj.kw, obj.ev[i].n)
            /\ obj.ev[i].e = "call" => obj.ev[i].n \notin DOMAIN obj.kw
            /\ (obj.ev[i].e = "set" /\ SpecOf(obj.ev[i]).default = "fac"
                   /\ obj.ev[i].n \notin DOMAIN obj.kw)
                  => \E j \in 1..Len(obj.ev) :
                        obj.ev[j].e = "call" /\ obj.ev[j].n = obj.ev[i].n


----------------------------------------------------------------------------
(* Round trip and required fields *)

\* the schema in effect for class c
SchemaOf(c) == SchemaObj(LookupSchema(c))

RECURSIVE DeclaredParam(_, _)
\* the constructor parameter n as class c or its nearest ancestor declares it
DeclaredParam(c, n) ==
    IF c = Object THEN NoParam
    ELSE IF decl[c].params[n].k # "absent" THEN decl[c].params[n]
    ELSE DeclaredParam(parent[c], n)

\* no two fields of the schema share an external name
InjectiveNames(s) ==
    \A n, m \in FieldNames :
        (HasField(s, n) /\ HasField(s, m) /\ n # m)
            => s.fields[n].dump_to # s.fields[m].dump_to

\* the instance holds null only where its schema allows null
NullsAllowed(s, i) ==
    \A n \in FieldNames :
        (HasField(s, n) /\ i.attrs[n] = "none") => s.fields[n].allow_none

(* C2: for every instance i of a derived model, load(dump(i)) yields an     *)
(* instance of the model whose fields equal those of i, under every         *)
(* external-name mapping; checked here for mappings that give distinct      *)
(* fields distinct keys and instances that hold null only in nullable       *)
(* fields.                                                                  *)
C2_RoundTrip ==
    (/\ res.op = "load" /\ res.from = "dump" /\ res.strict
     /\ InjectiveNames(SchemaOf(obj.cls))
     /\ NullsAllowed(SchemaOf(obj.cls), obj))
        => /\ res.raised = ""
           /\ res.inst # NoObj
           /\ res.inst.cls = obj.cls
           /\ \A n \in FieldNames :
                 HasField(SchemaOf(obj.cls), n) => res.inst.attrs[n] = obj.attrs[n]

\* the required fields of schema s that the input lacks
Lacking(s, input) ==
    {n \in FieldNames :
        /\ HasField(s, n)
        /\ s.fields[n].required
        /\ s.fields[n].load_from \notin DOMAIN input}

\* the value an absent optional field takes: its default, a factory's product
DefaultValue(c, n) ==
    IF DeclaredParam(c, n).d = "fac" THEN "made" ELSE DeclaredParam(c, n).d

(* C3: a field is required if and only if its constructor parameter        *)
(* declares no default; load of a representation that lacks a required     *)
(* field x fails with a validation error naming x, and load of a            *)
(* representation that supplies every required field with a value succeeds, *)
(* absent optional fields taking their defaults; checked here for the       *)
(* strict option.                                                           *)
C3_RequiredFieldEnforcement ==
    /\ \A c \in Classes : Derived(c) =>
          \A n \in FieldNames :
              Current(c).attrs[n].kind # "absent"
                  => (Current(c).attrs[n].required
                        <=> DeclaredParam(c, n).d = "nodefault")
    /\ (res.op = "load" /\ res.strict) =>
          /\ Lacking(SchemaOf(res.cls), res.input) # {}
                => /\ res.raised = "ValidationError"
                   /\ Lacking(SchemaOf(res.cls), res.input) \subseteq res.errors
          /\ (/\ Lacking(SchemaOf(res.cls), res.input) = {}
              /\ \A k \in DOMAIN res.input : res.input[k] # "none")
                => /\ res.raised = ""
                   /\ res.inst # NoObj
                   /\ \A n \in FieldNames :
                         (/\ HasField(SchemaOf(res.cls), n)
                          /\ SchemaOf(res.cls).fields[n].load_from \notin DOMAIN res.input)
                            => res.inst.attrs[n] = DefaultValue(res.cls, n)

====
